---- MODULE Spec2Model ----
(***************************************************************************)
(* Diabetic Retinopathy Detector (src/app.py): one Streamlit script.       *)
(*                                                                         *)
(* The script runs top to bottom on every page load and every widget       *)
(* interaction.  The state that survives a script run is                   *)
(*   - the st.cache_resource entry of load_models (process wide),          *)
(*   - st.session_state (per browser session),                             *)
(*   - the widget values (file uploader, slider),                          *)
(*   - the artifacts the loader reads (rf_model.pkl, imagenet weights).    *)
(* Every action below is one user interaction together with the script run *)
(* it triggers; `run` records what that script run did.                    *)
(*                                                                         *)
(* Probabilities are counted in votes of the forest: the float p is the    *)
(* integer p * NumTrees, so "sums to 1.0" is "sums to NumTrees".           *)
(***************************************************************************)
EXTENDS Integers, Sequences, FiniteSets, TLC

\* ------------------------------------------------------------------ bounds
\* number of distinct retinal image contents a user can upload
MaxPix == 2
\* n_estimators of the pickled forest (the unit of a probability)
NumTrees == 10
\* cap on the number of executions of the body of load_models
MaxLoads == 2

\* ------------------------------------------------------- program constants
IMG_WIDTH == 224
IMG_HEIGHT == 224
\* np.zeros(5), range(5)
NUM_STAGES == 5
\* EfficientNetB0(include_top=False) on 224x224x3 ends in a 7x7x1280 map
FeatureLen == 7 * 7 * 1280

\* slider(0.0, 1.0, 0.7, 0.05), in hundredths; a sample of its 21 positions
SliderDefault == 70
SliderValues == {70, 100}

\* ------------------------------------------------------------ python lists
\* seq[i] of a python list / numpy array of length Len(seq): negative
\* indices count from the end, anything else outside raises IndexError
PyIndexOK(seq, i) == i >= -Len(seq) /\ i < Len(seq)
PyIndex(i, n) == IF i < 0 THEN i + n + 1 ELSE i + 1

RECURSIVE SumSeq(_)
SumSeq(s) == IF s = <<>> THEN 0 ELSE Head(s) + SumSeq(Tail(s))

\* --------------------------------------------------------- static tables
stages_info ==
  0 :> [name |-> "No Diabetic Retinopathy",
        description |-> "No abnormalities detected. Regular annual checkups recommended.",
        symptoms |-> "No visible symptoms",
        recommendation |-> "Maintain good blood sugar control and annual eye exams",
        risk |-> "Very Low", urgency |-> "Routine"] @@
  1 :> [name |-> "Mild Nonproliferative Retinopathy",
        description |-> "Early stage with microaneurysms (small balloon-like swellings in retina's blood vessels).",
        symptoms |-> "Usually no symptoms",
        recommendation |-> "Monitor closely, improve blood sugar control",
        risk |-> "Low", urgency |-> "Regular Monitoring"] @@
  2 :> [name |-> "Moderate Nonproliferative Retinopathy",
        description |-> "Blood vessels that nourish retina are swelling and distorting.",
        symptoms |-> "Possible blurred vision",
        recommendation |-> "Regular monitoring every 6-12 months",
        risk |-> "Medium", urgency |-> "Close Monitoring"] @@
  3 :> [name |-> "Severe Nonproliferative Retinopathy",
        description |-> "More blood vessels are blocked, depriving retina of nourishment.",
        symptoms |-> "Significant vision problems",
        recommendation |-> "Immediate ophthalmologist consultation",
        risk |-> "High", urgency |-> "Urgent"] @@
  4 :> [name |-> "Proliferative Retinopathy",
        description |-> "Advanced stage where new fragile blood vessels grow on retina.",
        symptoms |-> "Severe vision loss, floaters",
        recommendation |-> "Urgent medical attention required",
        risk |-> "Very High", urgency |-> "Emergency"]

\* colors with the entry of stage 4 missing
colors_four == <<"#4CAF50", "#FF9800", "#FFC107", "#F44336">>

colors == <<"#4CAF50", "#FF9800", "#FFC107", "#F44336", "#9C27B0">>

follow_up_schedule ==
  0 :> "Annual comprehensive eye exam" @@
  1 :> "Follow-up in 6-12 months" @@
  2 :> "Follow-up in 4-6 months" @@
  3 :> "Consult ophthalmologist within 1 month" @@
  4 :> "Emergency referral needed"

\* the fields of a stages_info entry the results section reads
StageFields == {"name", "description", "symptoms", "recommendation", "risk", "urgency"}

\* -------------------------------------------------- artifacts of the loader
\* What load_models finds: rf_model.pkl absent, present but not readable,
\* present but not a pickle, a pickled classifier whose companion imagenet
\* weights cannot be obtained, or a pickled classifier with the weights at
\* hand.  A fitted classifier is its class list (classes_), whether it has
\* predict_proba, and its fitted decision function, which `shift` stands for.
NoClassifier(k) == [kind |-> k, has_proba |-> FALSE, classes |-> <<>>, shift |-> 0]

Classifier(p, c, s) == [kind |-> "classifier", has_proba |-> p, classes |-> c, shift |-> s]

\* a forest fitted on the five stages, a label-only model of the five stages,
\* a forest fitted on data without stage 4, and a label-only model whose
\* labels are 1..5
Classifiers ==
  { Classifier(TRUE, <<0, 1, 2, 3, 4>>, 0),
    Classifier(FALSE, <<0, 1, 2, 3, 4>>, 2),
    Classifier(TRUE, <<0, 1, 2, 3>>, 0),
    Classifier(FALSE, <<1, 2, 3, 4, 5>>, 3) }

Artifacts ==
  {NoClassifier("missing"), NoClassifier("unreadable"), NoClassifier("corrupt"),
   NoClassifier("no_weights")} \cup Classifiers

\* python's None as a model handle
None == NoClassifier("None")

\* ------------------------------------------------------------ the uploads
NoUpload == [kind |-> "None", mode |-> "", width |-> 0, height |-> 0, pix |-> 0]

ImageFile(m, w, h, p) == [kind |-> "image", mode |-> m, width |-> w, height |-> h, pix |-> p]

\* what a user can put in the file uploader (type jpg, png, jpeg): fundus
\* photographs in RGB of several sizes, a PNG with an alpha channel, a
\* grayscale file, a palette PNG, and a file that is no image at all
UploadFiles ==
  { ImageFile("RGB", IF p % 2 = 1 THEN 512 ELSE 100, IF p % 2 = 1 THEN 512 ELSE 300, p) :
      p \in 1..MaxPix }
  \cup { ImageFile("RGBA", 224, 224, 1), ImageFile("L", 640, 480, 1),
         ImageFile("P", 512, 512, 1),
         [kind |-> "corrupt", mode |-> "", width |-> 0, height |-> 0, pix |-> 0] }

\* ---------------------------------------------------------- session state
NoFeatures == [shape |-> <<>>, key |-> 0]

\* st.session_state before the first script run: no key is set
EmptySession ==
  [keys |-> {}, prediction_made |-> FALSE, prediction |-> 0,
   probabilities |-> <<>>, features |-> NoFeatures]

\* the st.cache_resource entry of load_models
EmptyCache == [filled |-> FALSE, rf_model |-> None, cnn_model |-> "None"]

\* ------------------------------------------------------------ load_models
\* The body of load_models.  Only FileNotFoundError is caught: it puts
\* st.error on the page and returns (None, None).  Every other exception
\* (PermissionError of open, UnpicklingError of pickle.load, the failed
\* download of the imagenet weights) leaves the function.
load_models_body(pkl) ==
  IF pkl.kind = "missing"
    THEN [rf_model |-> None, cnn_model |-> "None", exc |-> "none",
          shown |-> {"model_file_not_found"}]
  ELSE IF pkl.kind = "unreadable"
    THEN [rf_model |-> None, cnn_model |-> "None", exc |-> "PermissionError", shown |-> {}]
  ELSE IF pkl.kind = "corrupt"
    THEN [rf_model |-> None, cnn_model |-> "None", exc |-> "UnpicklingError", shown |-> {}]
  ELSE IF pkl.kind = "no_weights"
    THEN [rf_model |-> None, cnn_model |-> "None", exc |-> "WeightsDownloadError", shown |-> {}]
  ELSE [rf_model |-> pkl, cnn_model |-> "EfficientNetB0", exc |-> "none",
        shown |-> {"models_loaded"}]

\* load_models without @st.cache_resource: the body runs on every call
load_models_uncached(c, pkl) ==
  LET b == load_models_body(pkl)
  IN IF b.exc # "none"
       THEN [cache |-> c, status |-> "raised", body |-> TRUE, exc |-> b.exc,
             shown |-> b.shown]
       ELSE [cache |-> [filled |-> TRUE, rf_model |-> b.rf_model, cnn_model |-> b.cnn_model],
             status |-> IF b.rf_model = None THEN "not_found" ELSE "loaded",
             body |-> TRUE, exc |-> "none", shown |-> b.shown]

\* load_models() under @st.cache_resource: a value the body returned is kept
\* for the life of the process and handed out without running the body; a
\* body that raised stores nothing.  A hit shows the st messages of the
\* cached call again.
load_models(c, pkl) ==
  IF c.filled
    THEN [cache |-> c, status |-> "hit", body |-> FALSE, exc |-> "none",
          shown |-> IF c.rf_model = None THEN {"model_file_not_found"}
                    ELSE {"models_loaded"}]
  ELSE LET b == load_models_body(pkl)
       IN IF b.exc # "none"
            THEN [cache |-> c, status |-> "raised", body |-> TRUE, exc |-> b.exc,
                  shown |-> b.shown]
            ELSE [cache |-> [filled |-> TRUE, rf_model |-> b.rf_model, cnn_model |-> b.cnn_model],
                  status |-> IF b.rf_model = None THEN "not_found" ELSE "loaded",
                  body |-> TRUE, exc |-> "none", shown |-> b.shown]

\* ---------------------------------------------------------- preprocessing
\* img_to_array: one channel per band of the PIL mode
Channels(mode) ==
  CASE mode = "RGB" -> 3
    [] mode = "RGBA" -> 4
    [] mode = "CMYK" -> 4
    [] mode = "LA" -> 2
    [] OTHER -> 1

\* image.resize((224, 224)) keeps the mode and the content
Resize(img) == [img EXCEPT !.width = IMG_WIDTH, !.height = IMG_HEIGHT]

\* img_to_array, np.expand_dims(axis=0), preprocess_input: the shape of x
Preprocess(img) ==
  LET r == Resize(img) IN <<1, r.height, r.width, Channels(r.mode)>>

\* cnn_model.predict(x) accepts only the input_shape it was built with
ExtractorAccepts(x) == x = <<1, IMG_HEIGHT, IMG_WIDTH, 3>>

\* features.flatten().reshape(1, -1)
Features(img) == [shape |-> <<1, FeatureLen>>, key |-> img.pix]

\* ------------------------------------------------------------- classifier
\* index into classes_ of the class the fitted model votes for
TopClass(rf, features) == ((features.key + rf.shift) % Len(rf.classes)) + 1

\* rf_model.predict(features_flat)[0]
Predict(rf, features) == rf.classes[TopClass(rf, features)]

\* rf_model.predict_proba(features_flat)[0]: the share of the trees voting for
\* each class of classes_, one entry per class
PredictProba(rf, features) ==
  [i \in 1..Len(rf.classes) |->
     IF i = TopClass(rf, features) THEN NumTrees - (Len(rf.classes) - 1) ELSE 1]

\* np.zeros(n)
Zeros(n) == [i \in 1..n |-> 0]

\* OneHot with the 1.0 written one slot early: probabilities[prediction - 1]
OneHot_slot_before(prediction) ==
  [Zeros(NUM_STAGES) EXCEPT ![PyIndex(prediction - 1, NUM_STAGES)] = NumTrees]

\* np.zeros(5); probabilities[prediction] = 1.0
OneHot(prediction) ==
  [Zeros(NUM_STAGES) EXCEPT ![PyIndex(prediction, NUM_STAGES)] = NumTrees]

\* ------------------------------------------------- Start Analysis handler
\* what one pass through the handler body leaves behind
Outcome(ss, e, st, x) ==
  [session |-> ss, exc |-> e, stages |-> st, tensor |-> x]

\* st.session_state.prediction_made / prediction / probabilities / features
StoreResult(ss, prediction, probabilities, features) ==
  [keys |-> ss.keys \cup {"prediction_made", "prediction", "probabilities", "features"},
   prediction_made |-> TRUE, prediction |-> prediction,
   probabilities |-> probabilities, features |-> features]

\* StartAnalysisHandler with prediction_made and prediction written as soon
\* as the label is known, before the probabilities are computed
StartAnalysisHandler_early_write(m, image, ss) ==
  LET rf == m.rf_model
      x == Preprocess(image)
      features_flat == Features(Resize(image))
      prediction == Predict(rf, features_flat)
      early == [ss EXCEPT !.keys = @ \cup {"prediction"}, !.prediction_made = TRUE,
                          !.prediction = prediction]
  IN IF m.cnn_model = "None"
       THEN Outcome(ss, "AttributeError", <<"preprocess", "extract">>, x)
     ELSE IF ~ExtractorAccepts(x)
       THEN Outcome(ss, "ValueError", <<"preprocess", "extract">>, x)
     ELSE IF rf.has_proba
       THEN Outcome(StoreResult(ss, prediction, PredictProba(rf, features_flat), features_flat),
                    "none", <<"preprocess", "extract", "predict", "predict_proba", "store">>, x)
     ELSE IF ~PyIndexOK(Zeros(NUM_STAGES), prediction)
       THEN Outcome(early, "IndexError", <<"preprocess", "extract", "predict", "one_hot">>, x)
     ELSE Outcome(StoreResult(ss, prediction, OneHot(prediction), features_flat),
                  "none", <<"preprocess", "extract", "predict", "one_hot", "store">>, x)

\* the body under `if rf_model is not None and cnn_model is not None`:
\* preprocess, extract, predict, probabilities, and only then the four
\* writes to st.session_state.  An exception of any stage leaves the body
\* before the writes (None has no predict: AttributeError).
StartAnalysisHandler(m, image, ss) ==
  LET rf == m.rf_model
      x == Preprocess(image)
      features_flat == Features(Resize(image))
      prediction == Predict(rf, features_flat)
  IN IF m.cnn_model = "None"
       THEN Outcome(ss, "AttributeError", <<"preprocess", "extract">>, x)
     ELSE IF ~ExtractorAccepts(x)
       THEN Outcome(ss, "ValueError", <<"preprocess", "extract">>, x)
     ELSE IF rf.has_proba
       THEN Outcome(StoreResult(ss, prediction, PredictProba(rf, features_flat), features_flat),
                    "none", <<"preprocess", "extract", "predict", "predict_proba", "store">>, x)
     ELSE IF ~PyIndexOK(Zeros(NUM_STAGES), prediction)
       THEN Outcome(ss, "IndexError", <<"preprocess", "extract", "predict", "one_hot">>, x)
     ELSE Outcome(StoreResult(ss, prediction, OneHot(prediction), features_flat),
                  "none", <<"preprocess", "extract", "predict", "one_hot", "store">>, x)

\* -------------------------------------------------------- results section
\* The first lookup of the results section that raises, in source order:
\* colors[prediction], stages_info[prediction] and its fields, the DataFrame
\* over probabilities and colors, follow_up_schedule[prediction].
RenderResults(ss) ==
  IF ~PyIndexOK(colors, ss.prediction) THEN "IndexError"
  ELSE IF ss.prediction \notin DOMAIN stages_info THEN "KeyError"
  ELSE IF ~(StageFields \subseteq DOMAIN stages_info[ss.prediction]) THEN "KeyError"
  ELSE IF Len(ss.probabilities) # NUM_STAGES \/ Len(colors) # NUM_STAGES THEN "ValueError"
  ELSE IF ss.prediction \notin DOMAIN follow_up_schedule THEN "KeyError"
  ELSE "none"

\* ----------------------------------------------------------- a script run
\* `if 'prediction_made' not in st.session_state`
InitSession(ss) ==
  IF "prediction_made" \in ss.keys THEN ss
  ELSE [ss EXCEPT !.keys = @ \cup {"prediction_made"}, !.prediction_made = FALSE]

\* no script has run yet
NoRun ==
  [cache |-> EmptyCache, session |-> EmptySession, load |-> "none", body |-> 0,
   exc |-> "none", shown |-> {}, stages |-> <<>>, tensor |-> <<>>,
   button |-> FALSE, clicked |-> FALSE, stored |-> FALSE, rendered |-> FALSE,
   render_exc |-> "none", completed |-> FALSE, repeat |-> FALSE]

\* an exception nothing catches ends the script run; Streamlit shows it on
\* the page and keeps serving
Abort(r, e) ==
  [r EXCEPT !.exc = e, !.shown = @ \cup {"uncaught_exception"}, !.completed = FALSE]

\* the confidence indicator with its lines in force: st.warning when
\* probabilities[prediction] is below the slider value
ConfidenceWarning_enabled(ss, threshold) ==
  IF /\ PyIndexOK(ss.probabilities, ss.prediction)
     /\ ss.probabilities[PyIndex(ss.prediction, Len(ss.probabilities))] * 100
          < threshold * NumTrees
    THEN {"low_confidence"}
    ELSE {}

\* The confidence indicator of the results section: every line of it is a
\* comment, so it puts nothing on the page whatever the slider says.
ConfidenceWarning(ss, threshold) == {}

\* `if st.session_state.get('prediction_made', False)` to the end of the
\* script.  The confidence indicator comes after colors[prediction] and
\* stages_info[prediction]['name'] and before the probability chart.
ResultsSection(r, threshold) ==
  IF ~r.session.prediction_made THEN [r EXCEPT !.completed = TRUE]
  ELSE LET e == RenderResults(r.session)
           w == IF e \in {"IndexError", "KeyError"} THEN {}
                ELSE ConfidenceWarning(r.session, threshold)
       IN IF e # "none"
            THEN Abort([r EXCEPT !.render_exc = e, !.shown = @ \cup w], e)
            ELSE [r EXCEPT !.rendered = TRUE, !.completed = TRUE, !.shown = @ \cup w]

\* ModelsLoaded without the test for None
ModelsLoaded_unchecked(c) == TRUE

\* `if rf_model is not None and cnn_model is not None`
ModelsLoaded(c) == c.rf_model # None /\ c.cnn_model # "None"

\* One pass of the script from line 1.  `click` is whether the Start
\* Analysis button reports a press in this pass, `threshold` the value the
\* slider returns.
ScriptPass(c, pkl, ss, up, click, threshold) ==
  LET ld == load_models(c, pkl)
      r0 == [NoRun EXCEPT !.cache = ld.cache, !.session = InitSession(ss),
                          !.load = ld.status, !.body = IF ld.body THEN 1 ELSE 0,
                          !.shown = ld.shown]
  IN IF ld.exc # "none" THEN Abort(r0, ld.exc)
     ELSE IF up.kind = "None" THEN ResultsSection(r0, threshold)
     ELSE IF up.kind = "corrupt" THEN Abort(r0, "UnidentifiedImageError")
     ELSE IF ~click THEN ResultsSection([r0 EXCEPT !.button = TRUE], threshold)
     ELSE IF ~ModelsLoaded(ld.cache)
       THEN ResultsSection([r0 EXCEPT !.button = TRUE, !.clicked = TRUE], threshold)
     ELSE LET h == StartAnalysisHandler(ld.cache, up, r0.session)
              r1 == [r0 EXCEPT !.button = TRUE, !.clicked = TRUE, !.session = h.session,
                               !.stages = h.stages, !.tensor = h.tensor]
          IN IF h.exc # "none" THEN Abort(r1, h.exc)
             ELSE [r1 EXCEPT !.stored = TRUE]

\* st.rerun() after the writes: the pass p1 ends there and the script starts
\* again from line 1, which is the pass p2; what the user sees is p2, what
\* the handler did is in p1
AfterRerun(p1, p2) ==
  [p2 EXCEPT !.load = p1.load, !.body = p1.body + p2.body,
             !.shown = p1.shown \cup p2.shown, !.stages = p1.stages,
             !.tensor = p1.tensor, !.clicked = TRUE, !.stored = TRUE]

\* ------------------------------------------------------------------ state
VARIABLES
  artifacts,             \* rf_model.pkl and the weight source, as the loader finds them
  cache,                 \* the st.cache_resource entry of load_models
  session_state,         \* st.session_state
  uploaded_file,         \* the value of the file uploader
  confidence_threshold,  \* the value of the sidebar slider, in hundredths
  run,                   \* what the last script run did
  loads,                 \* how often the body of load_models was entered
  history                \* per upload, the results its analyses have stored

vars == <<artifacts, cache, session_state, uploaded_file, confidence_threshold,
          run, loads, history>>

Init ==
  /\ artifacts \in Artifacts
  /\ cache = EmptyCache
  /\ session_state = EmptySession
  /\ uploaded_file = NoUpload
  /\ confidence_threshold = SliderDefault
  /\ run = NoRun
  /\ loads = 0
  /\ history = [f \in UploadFiles |-> {}]

\* The script runs with the widget values `up`, `click` and `threshold`; a
\* pass that stored a result ends in st.rerun(), which runs the script once
\* more.
Rerun(up, click, threshold) ==
  /\ cache.filled \/ loads < MaxLoads
  /\ \E p1 \in {ScriptPass(cache, artifacts, session_state, up, click, threshold)} :
     \E r \in {IF p1.stored
                 THEN AfterRerun(p1, ScriptPass(p1.cache, artifacts, p1.session, up, FALSE,
                                                threshold))
                 ELSE p1} :
       /\ run' = [r EXCEPT !.repeat = r.stored /\ history[up] # {}]
       /\ cache' = r.cache
       /\ session_state' = r.session
       /\ loads' = loads + r.body
       /\ history' = IF r.stored
                       THEN [history EXCEPT ![up] =
                               @ \cup {<<r.session.prediction, r.session.probabilities>>}]
                       ELSE history

\* the browser opens or reloads the page
OpenPage ==
  /\ Rerun(uploaded_file, FALSE, confidence_threshold)
  /\ UNCHANGED <<artifacts, uploaded_file, confidence_threshold>>

\* the user drops a file into the uploader a completed or aborted run left
\* on the page
Upload(f) ==
  /\ run.load \in {"hit", "loaded", "not_found"}
  /\ f # uploaded_file
  /\ uploaded_file' = f
  /\ Rerun(f, FALSE, confidence_threshold)
  /\ UNCHANGED <<artifacts, confidence_threshold>>

\* the user removes the file from the uploader
RemoveUpload ==
  /\ uploaded_file # NoUpload
  /\ uploaded_file' = NoUpload
  /\ Rerun(NoUpload, FALSE, confidence_threshold)
  /\ UNCHANGED <<artifacts, confidence_threshold>>

\* the user moves the Confidence Threshold slider
MoveSlider(v) ==
  /\ run.load # "none"
  /\ v # confidence_threshold
  /\ confidence_threshold' = v
  /\ Rerun(uploaded_file, FALSE, v)
  /\ UNCHANGED <<artifacts, uploaded_file>>

\* the user presses Start Analysis, which the last run put on the page
StartAnalysis ==
  /\ run.button
  /\ Rerun(uploaded_file, TRUE, confidence_threshold)
  /\ UNCHANGED <<artifacts, uploaded_file, confidence_threshold>>

\* an operator puts, replaces or removes rf_model.pkl, or the weight source
\* goes away or comes back
ReplaceArtifacts(a) ==
  /\ a # artifacts
  /\ artifacts' = a
  /\ UNCHANGED <<cache, session_state, uploaded_file, confidence_threshold,
                 run, loads, history>>

Next ==
  \/ OpenPage
  \/ \E f \in UploadFiles : Upload(f)
  \/ RemoveUpload
  \/ \E v \in SliderValues : MoveSlider(v)
  \/ StartAnalysis
  \/ \E a \in Artifacts : ReplaceArtifacts(a)

Spec == Init /\ [][Next]_vars

\* ================================================================= claims

\* the handles a script run works with are absent
NoHandles == cache.rf_model = None /\ cache.cnn_model = "None"

\* C1: every stored Prediction Result has a label in {0,1,2,3,4} and a
\* probabilities vector of length 5 whose entries lie in [0,1] and sum to 1.0,
\* whatever the classifier returned.
C1_ResultWellFormed ==
  session_state.prediction_made =>
    /\ session_state.prediction \in 0..4
    /\ Len(session_state.probabilities) = 5
    /\ \A i \in 1..Len(session_state.probabilities) :
         session_state.probabilities[i] \in 0..NumTrees
    /\ SumSeq(session_state.probabilities) = NumTrees

\* C2: without predict_proba the stored probabilities are one-hot at the
\* predicted label L in 0..4 (length 5, entry L is 1.0, the others 0.0); with
\* predict_proba they are the classifier's output for the feature vector.
C2_Probabilities ==
  session_state.prediction_made =>
    /\ (~cache.rf_model.has_proba /\ session_state.prediction \in 0..4) =>
         /\ Len(session_state.probabilities) = 5
         /\ \A i \in 1..5 :
              session_state.probabilities[i] =
                IF i = session_state.prediction + 1 THEN NumTrees ELSE 0
    /\ cache.rf_model.has_proba =>
         session_state.probabilities = PredictProba(cache.rf_model, session_state.features)

\* C2 witness: a label-only classifier predicted stage 3 and [0,0,0,1,0] is stored
C2_Witness ==
  /\ run.stored
  /\ ~cache.rf_model.has_proba
  /\ session_state.prediction = 3
  /\ session_state.probabilities = <<0, 0, 0, NumTrees, 0>>

\* one step of C3: a pressed Start Analysis that stored nothing left the
\* session state as it was, and the stored keys are all of a result or none
C3_Step ==
  /\ (run'.clicked /\ ~run'.stored) => session_state' = session_state
  /\ LET result == {"prediction", "probabilities", "features"}
     IN \/ /\ session_state'.keys \cap result = {}
           /\ ~session_state'.prediction_made
        \/ /\ result \subseteq session_state'.keys
           /\ session_state'.prediction_made

\* C3: a Start Analysis run either stores label, probabilities and features
\* together, or, when a stage raises, changes nothing of the session state;
\* the stored keys are never a part of a result.
C3_NoPartialResult == [][C3_Step]_vars

\* C3 witness: the one-hot step raised after the label was predicted, and the
\* result of an earlier analysis is still the stored one
C3_Witness ==
  /\ run.clicked
  /\ ~run.stored
  /\ run.exc = "IndexError"
  /\ run.stages = <<"preprocess", "extract", "predict", "one_hot">>
  /\ session_state.prediction_made

\* C4: when load_models delivered no handles (FileNotFoundError, or an
\* exception that left it), no stage of the pipeline runs and nothing is
\* stored in that script run, and the run in which the load failed shows the
\* failure on the page.
C4_RefusesWithoutModels ==
  (run.load \in {"not_found", "raised"} \/ (run.load = "hit" /\ NoHandles)) =>
    /\ NoHandles
    /\ run.stages = <<>>
    /\ run.tensor = <<>>
    /\ ~run.stored
    /\ run.load \in {"not_found", "raised"} =>
         run.shown \cap {"model_file_not_found", "uncaught_exception"} # {}

\* C4 witness: Start Analysis pressed on a valid image while the cached
\* handles are (None, None)
C4_Witness ==
  /\ run.clicked
  /\ run.load = "hit"
  /\ NoHandles
  /\ uploaded_file.mode = "RGB"

\* C5: a per-call error does not end the script run: a corrupt upload shows
\* UnsupportedImageFormat, an exception of a model during the forward pass
\* shows InferenceError, and the page completes in both cases.
C5_ErrorsCaught ==
  /\ uploaded_file.kind = "corrupt" /\ run.load \in {"hit", "loaded", "not_found"} =>
       run.completed /\ "UnsupportedImageFormat" \in run.shown
  /\ run.clicked /\ run.stages # <<>> /\ ~run.stored =>
       run.completed /\ "InferenceError" \in run.shown

\* one step of C6: a Start Analysis without handles and without artifacts
\* shows the failure; a Start Analysis with the artifacts in place runs stages
C6_Step ==
  StartAnalysis =>
    /\ (cache.filled /\ NoHandles /\ artifacts.kind # "classifier") =>
         "model_file_not_found" \in run'.shown
    /\ (artifacts.kind = "classifier" /\ uploaded_file.mode = "RGB") =>
         run'.stages # <<>>

\* C6: after a failed load the page says on every Start Analysis that
\* inference is unavailable, and once the artifacts are in place a Start
\* Analysis of the same process runs inference.
C6_RecoversWhenResolved == [][C6_Step]_vars

\* C7 as stated: across any sequence of script runs of one process the body
\* of load_models executes at most once
C7_BodyExecutesOnce == loads <= 1

\* one step of C7: a filled cache keeps its handles and the body stays out
C7_Step == cache.filled => (loads' = loads /\ cache' = cache)

\* C7: once load_models has returned, its body is never entered again and
\* every later script run works with the same two handles, whatever happens
\* to the artifacts meanwhile.
C7_LoadedOnce == [][C7_Step]_vars

\* C7 witness: an analysis ran on the cached handles after rf_model.pkl had
\* been replaced by another classifier
C7_Witness ==
  /\ run.load = "hit"
  /\ run.stored
  /\ loads = 1
  /\ artifacts.kind = "classifier"
  /\ artifacts # cache.rf_model

\* C8: the tensor handed to the feature extractor always has shape
\* (1, 224, 224, 3), whatever the size and mode of the upload.
C8_ThreeChannels ==
  run.tensor # <<>> => run.tensor = <<1, 224, 224, 3>>

\* C9: all analyses of the same image store the same label and the same
\* probabilities, whatever ran in between.
C9_Deterministic ==
  \A f \in UploadFiles : Cardinality(history[f]) <= 1

\* C9 witness: an image is analysed again after another image was analysed
\* and the slider was moved
C9_Witness ==
  /\ run.repeat
  /\ \E g \in UploadFiles : g # uploaded_file /\ history[g] # {}
  /\ session_state.prediction \notin {r[1] : r \in UNION {history[g] : g \in UploadFiles \ {uploaded_file}}}
  /\ confidence_threshold # SliderDefault

\* C10: every table the results section indexes by the label has an entry
\* for each label 0..4, so rendering a stored result whose label is valid
\* raises neither KeyError nor IndexError.
C10_LookupTotal ==
  /\ \A l \in 0..4 :
       /\ l \in DOMAIN stages_info
       /\ StageFields \subseteq DOMAIN stages_info[l]
       /\ PyIndexOK(colors, l)
       /\ l \in DOMAIN follow_up_schedule
  /\ (session_state.prediction_made /\ session_state.prediction \in 0..4) =>
       run.render_exc \notin {"KeyError", "IndexError"}

\* C10 witness: a result with label 4 was rendered
C10_Witness ==
  /\ run.rendered
  /\ session_state.prediction = 4

\* C11: the slider is inert: a script run at any other slider value leaves
\* the same stored result and puts the same elements on the page as the run
\* at the current value, with or without a press of Start Analysis, and no
\* run ever shows the low-confidence warning.
C11_ThresholdInert ==
  /\ "low_confidence" \notin run.shown
  /\ \A v \in SliderValues : \A click \in BOOLEAN :
       ScriptPass(cache, artifacts, session_state, uploaded_file, click, v)
         = ScriptPass(cache, artifacts, session_state, uploaded_file, click,
                      confidence_threshold)

\* C11 witness: the results are on the page with the slider moved to 1.0 and
\* the confidence of the stored label below it
C11_Witness ==
  /\ run.rendered
  /\ confidence_threshold = 100
  /\ session_state.probabilities[session_state.prediction + 1] * 100
       < confidence_threshold * NumTrees

\* one step of C12: prediction_made rises only with a handler that went
\* through all its stages, is never reset, the stored result changes only by
\* a new stored result, and a script run after a success renders the results
C12_Step ==
  /\ (~session_state.prediction_made /\ session_state'.prediction_made) =>
       /\ run'.stored
       /\ run'.stages[Len(run'.stages)] = "store"
  /\ session_state.prediction_made =>
       /\ session_state'.prediction_made
       /\ {"prediction", "probabilities", "features"} \subseteq session_state'.keys
       /\ ~run'.stored => session_state' = session_state
  /\ (session_state.prediction_made /\ artifacts' = artifacts /\ run' # run) =>
       run'.rendered

\* C12: prediction_made goes from False to True only at the end of a Start
\* Analysis run that completed every stage, nothing resets it or clears the
\* stored result, and once an analysis has succeeded every later script run
\* renders the results section from the last stored result.
C12_ResultsStay == [][C12_Step]_vars

====
